---------------------------- MODULE Spec2Model ----------------------------
(***************************************************************************)
(* Model of examples/frigate/frigate.py (mqttwarn): the Frigate event      *)
(* filter frigate_events_filter, the Apprise/Ntfy parameter composer       *)
(* frigate_events and the snapshot topic decoder                           *)
(* frigate_snapshot_decode_topic.                                          *)
(***************************************************************************)
EXTENDS Integers, Sequences, FiniteSets, TLC

VARIABLES pc, msg, section, decision, log, out, config, topic, topology

vars == <<pc, msg, section, decision, log, out, config, topic, topology>>

-----------------------------------------------------------------------------
(* Bounds of the model.                                                    *)

\* longest zone list of an `after` record
MaxZones == 2
\* largest number of skip rules of a section
MaxRules == 2
\* largest number of segments of a topic
MaxSegments == 5
\* host worker threads of the concurrent specification
NumWorkers == 2

-----------------------------------------------------------------------------
(* JSON values as Python objects.  Every value is a record of one shape;   *)
(* t is the Python type, the other fields hold the content (unused ones    *)
(* keep their default).  "absent" stands for a key the mapping lacks.      *)

Absent  == [t |-> "absent", n |-> 0, s |-> "", l |-> <<>>]
Null    == [t |-> "null",   n |-> 0, s |-> "", l |-> <<>>]
PyTrue  == [t |-> "bool",   n |-> 1, s |-> "", l |-> <<>>]
PyFalse == [t |-> "bool",   n |-> 0, s |-> "", l |-> <<>>]
Num(k)  == [t |-> "num",    n |-> k, s |-> "", l |-> <<>>]
Str(x)  == [t |-> "str",    n |-> 0, s |-> x,  l |-> <<>>]
List(x) == [t |-> "list",   n |-> 0, s |-> "", l |-> x]

\* Python truth value: `not value` of line 150, `or` of line 81
Truthy(v) ==
    CASE v.t = "bool" -> v.n = 1
      [] v.t = "num"  -> v.n # 0
      [] v.t = "str"  -> v.s # ""
      [] v.t = "list" -> v.l # <<>>
      [] OTHER        -> FALSE

\* Python ==: bool is a subclass of int (True == 1), lists compare element
\* by element in order, values of unrelated types are unequal
PyEq(a, b) ==
    \/ a = b
    \/ a.t \in {"bool", "num"} /\ b.t \in {"bool", "num"} /\ a.n = b.n

\* `value is True`
IsTrue(v) == v.t = "bool" /\ v.n = 1

\* dict lookup: the value under key f, Absent when the dict has no such key
Lookup(d, f) == IF f \in DOMAIN d THEN d[f] ELSE Absent

Has(d, f) == Lookup(d, f).t # "absent"

-----------------------------------------------------------------------------
(* Outcome of one call: the value returned or the exception raised,        *)
(* and the warnings logged on the way.                                     *)

\* mutated: return True with the warning left out
SuppressSilent(line) == [ret |-> "suppress", exc |-> "", log |-> <<>>]

\* srv.logging.warning(line); return True
Suppress(line) == [ret |-> "suppress", exc |-> "", log |-> <<line>>]
Forward        == [ret |-> "forward",  exc |-> "", log |-> <<>>]
Raise(e)       == [ret |-> "raise",    exc |-> e,  log |-> <<>>]
Continue       == [ret |-> "continue", exc |-> "", log |-> <<>>]

\* a warning: the fixed text and the interpolated value
Line(text, arg) == <<text, arg>>

-----------------------------------------------------------------------------
(* frigate_events_filter, lines 99-181.                                    *)
(* A message is [kind, type, before, after]: kind "garbage" is text that   *)
(* json.loads rejects, "nonobject" a document that is no JSON object,      *)
(* "object" a JSON object with its `type`, `before` and `after` members.   *)
(* `after` and `before` are [kind, items, d]: kind "absent" (no such       *)
(* member), "null", "list" (a JSON array holding `items`) or "dict" (a     *)
(* record, its members in d).                                              *)

\* line 127
nonempty_fields ==
    <<"false_positive", "camera", "label", "current_zones", "entered_zones", "frame_time">>

\* lines 108-112: json.loads and its JSONDecodeError handler
ParseStep(m) ==
    IF m.kind = "garbage"
    THEN Suppress(Line("Can't parse Frigate event message: ", "JSONDecodeError"))
    ELSE Continue

\* line 115: message.get('type', None); only a dict has .get
MessageType(m) == IF m.type.t = "absent" THEN Null ELSE m.type

\* lines 114-123: ending messages, and payloads without 'after'
TypeStep(m) ==
    IF m.kind # "object" THEN Raise("AttributeError")
    ELSE IF PyEq(MessageType(m), Str("end"))
    THEN Suppress(Line("Frigate event skipped, ignoring Message type ", "end"))
    ELSE IF m.after.kind = "absent"
    THEN Suppress(Line("Frigate event skipped, 'after' missing from payload", ""))
    ELSE Continue

\* lines 141-152, mutated: the truth test dropped
FieldValueStepLax(field, value) ==
    IF field = "false_positive" /\ IsTrue(value)
    THEN Suppress(Line("Frigate event skipped, it is a false positive", ""))
    ELSE Continue

\* lines 137-152: what one present field's value decides
FieldValueStep(field, value) ==
    IF field = "current_zones" THEN Continue
    ELSE IF field = "false_positive"
    THEN IF IsTrue(value)
         THEN Suppress(Line("Frigate event skipped, it is a false positive", ""))
         ELSE Continue
    ELSE IF ~Truthy(value)
    THEN Suppress(Line("Frigate event skipped, field is empty: ", field))
    ELSE Continue

\* lines 128-152: the loop over nonempty_fields, from its i-th field on.
\* `field not in after` is a key test on a dict, a membership test on a
\* list and a TypeError on None; after.get exists on a dict only.
RECURSIVE CheckFields(_, _)
CheckFields(after, i) ==
    IF i > Len(nonempty_fields) THEN Continue
    ELSE LET field == nonempty_fields[i] IN
         CASE after.kind = "null" -> Raise("TypeError")
           [] after.kind = "list" ->
                IF \A k \in DOMAIN after.items : after.items[k] # field
                THEN Suppress(Line("Frigate event skipped, missing field: ", field))
                ELSE Raise("AttributeError")
           [] OTHER ->
                IF ~Has(after.d, field)
                THEN Suppress(Line("Frigate event skipped, missing field: ", field))
                ELSE LET r == FieldValueStep(field, Lookup(after.d, field)) IN
                     IF r.ret # "continue" THEN r ELSE CheckFields(after, i + 1)

\* lines 160-162, mutated: both disjuncts required
SameZoneBoth(before, after) ==
    IF ~PyEq(after.d.current_zones, after.d.entered_zones) THEN "no"
    ELSE IF ~Has(before.d, "current_zones") THEN "KeyError"
    ELSE IF ~PyEq(before.d.current_zones, after.d.current_zones) THEN "no"
    ELSE IF ~Has(before.d, "entered_zones") THEN "KeyError"
    ELSE IF PyEq(before.d.entered_zones, after.d.entered_zones) THEN "yes"
    ELSE "no"

\* lines 160-162: the `or`/`and` condition, evaluated left to right;
\* before[...] raises KeyError on a key `before` lacks
SameZone(before, after) ==
    IF PyEq(after.d.current_zones, after.d.entered_zones) THEN "yes"
    ELSE IF ~Has(before.d, "current_zones") THEN "KeyError"
    ELSE IF ~PyEq(before.d.current_zones, after.d.current_zones) THEN "no"
    ELSE IF ~Has(before.d, "entered_zones") THEN "KeyError"
    ELSE IF PyEq(before.d.entered_zones, after.d.entered_zones) THEN "yes"
    ELSE "no"

\* lines 154-164: unimportant `update` events
UpdateStep(m) ==
    IF PyEq(MessageType(m), Str("update")) /\ m.before.kind = "dict"
    THEN IF IsTrue(Lookup(m.before.d, "stationary")) /\ IsTrue(Lookup(m.after.d, "stationary"))
         THEN Suppress(Line("Frigate event skipped, object is stationary", ""))
         ELSE LET z == SameZone(m.before, m.after) IN
              CASE z = "yes" ->
                     Suppress(Line("Frigate event skipped, object stayed within same zone", ""))
                [] z = "no" -> Continue
                [] OTHER -> Raise(z)
    ELSE Continue

-----------------------------------------------------------------------------
(* Skip rules, lines 166-179.  A rule is the sequence of its items         *)
(* <<fieldname, skip_values>> in the dict's iteration order; a section's   *)
(* rules are the sequence of the values of its frigate_skip_rules dict.    *)

\* line 174, mutated: any() in place of all()
ListMatchAny(actual, skip_values) ==
    \E k \in DOMAIN actual.l : actual.l[k] \in skip_values

\* line 174: all(value in skip_values for value in actual_value)
ListMatch(actual, skip_values) ==
    \A k \in DOMAIN actual.l : actual.l[k] \in skip_values

\* line 176: actual_value in skip_values
ScalarMatch(actual, skip_values) ==
    \E x \in skip_values : PyEq(actual, Str(x))

\* lines 171-176: the items of one rule from the j-th on, do_skip so far;
\* the result is "skip", "keep" or the exception of after[fieldname]
RECURSIVE EvalRule(_, _, _, _)
EvalRule(rule, after, j, do_skip) ==
    IF j > Len(rule) THEN (IF do_skip THEN "skip" ELSE "keep")
    ELSE LET fieldname   == rule[j][1]
             skip_values == rule[j][2]
             actual      == Lookup(after.d, fieldname)
         IN  IF actual.t = "absent" THEN "KeyError"
             ELSE IF actual.t = "list"
             THEN EvalRule(rule, after, j + 1, do_skip /\ ListMatch(actual, skip_values))
             ELSE EvalRule(rule, after, j + 1, do_skip /\ ScalarMatch(actual, skip_values))

\* lines 169-181, mutated: a rule that raises is passed over
RECURSIVE RulesStepLenient(_, _, _)
RulesStepLenient(rules, after, i) ==
    IF i > Len(rules) THEN Forward
    ELSE LET r == EvalRule(rules[i], after, 1, TRUE) IN
         IF r = "skip"
         THEN Suppress(Line("Frigate event skipped, object did not enter zone of interest", ""))
         ELSE RulesStepLenient(rules, after, i + 1)

\* lines 169-181: the rules from the i-th on, in order; the first rule
\* that triggers suppresses, and falling off the loop forwards
RECURSIVE RulesStep(_, _, _)
RulesStep(rules, after, i) ==
    IF i > Len(rules) THEN Forward
    ELSE LET r == EvalRule(rules[i], after, 1, TRUE) IN
         CASE r = "skip" ->
                Suppress(Line("Frigate event skipped, object did not enter zone of interest", ""))
           [] r = "keep" -> RulesStep(rules, after, i + 1)
           [] OTHER -> Raise(r)

\* lines 99-181: the ordered pipeline; the first step that returns or
\* raises ends the call
frigate_events_filter(m, rules) ==
    LET p == ParseStep(m) IN
    IF p.ret # "continue" THEN p ELSE
    LET t == TypeStep(m) IN
    IF t.ret # "continue" THEN t ELSE
    LET f == CheckFields(m.after, 1) IN
    IF f.ret # "continue" THEN f ELSE
    LET u == UpdateStep(m) IN
    IF u.ret # "continue" THEN u ELSE
    RulesStep(rules, m.after, 1)

-----------------------------------------------------------------------------
(* frigate_events, lines 64-96, with FrigateEvent (16-45) and              *)
(* NtfyParameters (48-61).                                                 *)

\* line 28: y.replace('_', ' ') on the zone names of the model
Display(zone) ==
    CASE zone = "front_yard" -> "front yard"
      [] zone = "side_yard"  -> "side yard"
      [] zone = "back_yard"  -> "back yard"
      [] OTHER               -> zone

\* lines 27-28: f
RECURSIVE f(_)
f(value) == IF value = <<>> THEN <<>> ELSE <<Display(Head(value))>> \o f(Tail(value))

\* ', '.join
RECURSIVE Join(_)
Join(names) ==
    IF Len(names) <= 1 THEN names
    ELSE <<Head(names), ", ">> \o Join(Tail(names))

\* lines 30-42: current_zones_str / entered_zones_str
zones_str(zones) == IF Truthy(zones) THEN Join(f(zones.l)) ELSE <<>>

\* line 79: datetime.fromtimestamp(frame_time, tz=timezone.utc)
FromTimestamp(v) == [epoch |-> v.n, tz |-> "UTC"]

\* the fields of FrigateEvent, lines 21-25
EventFields == {"time", "camera", "label", "current_zones", "entered_zones"}

NoParams == [ret |-> "none", exc |-> "", title |-> <<>>, format |-> <<>>, click |-> <<>>]

Failed(e) == [NoParams EXCEPT !.ret = "raise", !.exc = e]

\* line 81: after['sub_label']
SubLabel(d) == Lookup(d, "sub_label")

\* lines 74-96: the parameters returned, or the exception raised, in the
\* order the code evaluates; filename_template is the service's template,
\* the sequence of the field names it interpolates.  The zone members of
\* the model are lists, null or missing: null[0] is a TypeError.
frigate_events(m, filename_template) ==
    IF m.kind = "garbage" THEN Failed("JSONDecodeError")
    ELSE IF m.kind # "object" THEN Failed("TypeError")
    ELSE IF m.after.kind = "absent" THEN Failed("KeyError")
    ELSE IF m.after.kind # "dict" THEN Failed("TypeError")
    ELSE LET d == m.after.d IN
    IF ~Has(d, "frame_time") THEN Failed("KeyError")
    ELSE IF d.frame_time.t \notin {"num", "bool"} THEN Failed("TypeError")
    ELSE IF ~Has(d, "camera") THEN Failed("KeyError")
    ELSE IF SubLabel(d).t = "absent" THEN Failed("KeyError")
    ELSE IF ~Truthy(SubLabel(d)) /\ ~Has(d, "label") THEN Failed("KeyError")
    ELSE IF ~Has(d, "current_zones") \/ ~Has(d, "entered_zones") THEN Failed("KeyError")
    ELSE IF \E k \in DOMAIN filename_template : filename_template[k] \notin EventFields
    THEN Failed("KeyError")
    ELSE LET label == IF Truthy(SubLabel(d)) THEN SubLabel(d) ELSE d.label
             time  == FromTimestamp(d.frame_time)
         IN
    IF d.entered_zones.t # "list" THEN Failed("TypeError")
    ELSE IF d.entered_zones.l = <<>> THEN Failed("IndexError")
    ELSE [ret    |-> "params",
          exc    |-> "",
          title  |-> <<label, " entered ", zones_str(d.entered_zones), " at ", time>>,
          format |-> <<label, " was in ", zones_str(d.current_zones)>>,
          click  |-> <<"https://frigate/events?camera=", d.camera, "&label=", label,
                       "&zone=", d.entered_zones.l[1]>>]

-----------------------------------------------------------------------------
(* frigate_snapshot_decode_topic, lines 184-202.  A string topic is the    *)
(* sequence of its segments, the slash-free pieces between its slashes     *)
(* (any string is such a sequence, uniquely); str is FALSE for a topic     *)
(* that is no str.                                                         *)

\* '.' matches any character except a newline
Dotted(seg) == seg # "snapshot\n"

\* segments a..b joined with '/' form a non-empty text that .+? can match
Matchable(segs, a, b) ==
    /\ a <= b
    /\ (a < b \/ segs[a] # "")
    /\ \A i \in a..b : Dotted(segs[i])

\* line 195: the positions k at which the pattern
\* ^frigate/(?P<camera_name>.+?)/(?P<object_name>.+?)/snapshot$ can split
\* the topic: camera_name is segments 2..k, object_name segments k+1..n-1
\* ($ also matches before a final newline)
Splits(segs) ==
    LET n == Len(segs) IN
    IF n < 4 \/ segs[1] # "frigate" \/ segs[n] \notin {"snapshot", "snapshot\n"}
    THEN {}
    ELSE {k \in 2..(n - 2) : Matchable(segs, 2, k) /\ Matchable(segs, k + 1, n - 1)}

NoneResult == [ret |-> "None", camera_name |-> <<>>, object_name |-> <<>>]
EmptyDict  == [ret |-> "dict", camera_name |-> <<>>, object_name |-> <<>>]

\* lines 193-202: None for a non-str; the groupdict of the match (the
\* non-greedy camera_name takes the first split); {} when m is None and
\* m.groupdict() raises into the bare except
frigate_snapshot_decode_topic(tp) ==
    IF ~tp.str THEN NoneResult
    ELSE LET K == Splits(tp.segs) IN
         IF K = {} THEN EmptyDict
         ELSE LET k == CHOOSE x \in K : \A y \in K : x <= y IN
              [ret         |-> "groupdict",
               camera_name |-> SubSeq(tp.segs, 2, k),
               object_name |-> SubSeq(tp.segs, k + 1, Len(tp.segs) - 1)]

-----------------------------------------------------------------------------
(* The inputs: messages, skip rules and topics.                            *)

Zones == {"front_yard", "side_yard", "back_yard"}

\* a zone list names each zone once
ZoneSeqs ==
    UNION {{z \in [1..n -> Zones] : \A i, j \in 1..n : i # j => z[i] # z[j]} :
           n \in 0..MaxZones}

ZoneLists == {List(z) : z \in ZoneSeqs}

ShortZoneLists == {List(<<>>), List(<<"front_yard">>)}

FrameTime == Num(1700000000)

AfterRecord(fp, cam, lab, sub, cz, ez, ft, st) ==
    [false_positive |-> fp, camera |-> cam, label |-> lab, sub_label |-> sub,
     current_zones |-> cz, entered_zones |-> ez, frame_time |-> ft, stationary |-> st]

BeforeRecord(st, cz, ez) ==
    [stationary |-> st, current_zones |-> cz, entered_zones |-> ez]

NoAfterFields  == AfterRecord(Absent, Absent, Absent, Absent, Absent, Absent, Absent, Absent)
NoBeforeFields == BeforeRecord(Absent, Absent, Absent)

AfterMissing == [kind |-> "absent", items |-> <<>>, d |-> NoAfterFields]
AfterNull    == [kind |-> "null",   items |-> <<>>, d |-> NoAfterFields]
AfterList(x) == [kind |-> "list",   items |-> x,    d |-> NoAfterFields]
AfterDict(d) == [kind |-> "dict",   items |-> <<>>, d |-> d]

BeforeMissing == [kind |-> "absent", items |-> <<>>, d |-> NoBeforeFields]
BeforeNull    == [kind |-> "null",   items |-> <<>>, d |-> NoBeforeFields]
BeforeDict(d) == [kind |-> "dict",   items |-> <<>>, d |-> d]

Garbage   == [kind |-> "garbage",   type |-> Absent, before |-> BeforeMissing, after |-> AfterMissing]
NonObject == [kind |-> "nonobject", type |-> Absent, before |-> BeforeMissing, after |-> AfterMissing]
Object(type, before, after) ==
    [kind |-> "object", type |-> type, before |-> before, after |-> after]

NoMessage == Garbage

Types == {Absent, Str("new"), Str("update"), Str("end")}

\* `after` values that are no record
NonRecordAfters ==
    {AfterMissing, AfterNull, AfterList(<<>>), AfterList(<<"false_positive">>)}

SampleBefore ==
    BeforeDict(BeforeRecord(PyTrue, List(<<>>), List(<<"front_yard">>)))

\* the zone lists tried in a `before` record against the list of `after`
BeforeZones(z) == {Absent, z} \cup ShortZoneLists

Rules ==
    { <<>>,
      << <<"label", {"cat", "dog"}>> >>,
      << <<"entered_zones", {"front_yard"}>> >>,
      << <<"label", {"cat", "dog"}>>, <<"entered_zones", {"front_yard"}>> >>,
      << <<"sub_label", {"bob"}>> >>,
      << <<"zone", {"front_yard"}>> >>,
      << <<"label", {"dog"}>>, <<"zone", {"front_yard"}>> >> }

RuleLists == UNION {[1..n -> Rules] : n \in 0..MaxRules}

FewRuleLists == {<<>>, << << <<"label", {"cat", "dog"}>> >> >>, << <<>> >>}

Sections == {"frigate/events", "frigate/garden"}

\* the filename_template of the apprise-ntfy service
FilenameTemplate == <<"camera", "label", "time">>

Segments == {"", "frigate", "snapshot", "snapshot\n", "driveway", "person"}

NoTopic == [str |-> FALSE, segs |-> <<>>]

Workers == 1..NumWorkers

NoDecision == [ret |-> "none", exc |-> "", log |-> <<>>]

-----------------------------------------------------------------------------
(* The host: each worker receives a message for a section, calls the       *)
(* filter, and calls the transformation when the filter forwarded.         *)

Pending == [ret |-> "pending", camera_name |-> <<>>, object_name |-> <<>>]

ConfigOf(rules) == [s \in Sections |-> IF s = "frigate/events" THEN rules ELSE <<>>]

Init ==
    /\ pc = [w \in Workers |-> "idle"]
    /\ msg = [w \in Workers |-> NoMessage]
    /\ section = [w \in Workers |-> "frigate/events"]
    /\ decision = [w \in Workers |-> NoDecision]
    /\ log = [w \in Workers |-> <<>>]
    /\ out = [w \in Workers |-> NoParams]
    /\ config \in {ConfigOf(rules) : rules \in RuleLists}
    /\ topic = NoTopic
    /\ topology = Pending

\* line 109, mutated: the parsed message kept in a module-level global
\* that every call overwrites
MessageShared(w) == msg[1]

\* line 109: the message this call parsed
Message(w) == msg[w]

\* line 168: context.config.getdict(section, "frigate_skip_rules").values()
frigate_skip_rules(w) == config[section[w]]

\* the host hands worker w a message of section s
Receive(w, s, m) ==
    /\ pc[w] = "idle"
    /\ msg' = [msg EXCEPT ![w] = m]
    /\ section' = [section EXCEPT ![w] = s]
    /\ decision' = [decision EXCEPT ![w] = NoDecision]
    /\ log' = [log EXCEPT ![w] = <<>>]
    /\ out' = [out EXCEPT ![w] = NoParams]
    /\ pc' = [pc EXCEPT ![w] = "received"]
    /\ UNCHANGED <<config, topic, topology>>

\* the call of frigate_events_filter, lines 99-181: its warnings go to the
\* log, its return value or exception to the host
Filter(w) ==
    /\ pc[w] = "received"
    /\ LET r == frigate_events_filter(Message(w), frigate_skip_rules(w)) IN
         /\ decision' = [decision EXCEPT ![w] = [r EXCEPT !.log = <<>>]]
         /\ log' = [log EXCEPT ![w] = log[w] \o r.log]
    /\ pc' = [pc EXCEPT ![w] = "filtered"]
    /\ UNCHANGED <<msg, section, out, config, topic, topology>>

\* the call of frigate_events, lines 64-96, on a forwarded message
Compose(w) ==
    /\ pc[w] = "filtered"
    /\ decision[w].ret = "forward"
    /\ out' = [out EXCEPT ![w] = frigate_events(Message(w), FilenameTemplate)]
    /\ pc' = [pc EXCEPT ![w] = "done"]
    /\ UNCHANGED <<msg, section, decision, log, config, topic, topology>>

\* a suppressed message, or a filter that raised: nothing is composed
Drop(w) ==
    /\ pc[w] = "filtered"
    /\ decision[w].ret # "forward"
    /\ pc' = [pc EXCEPT ![w] = "done"]
    /\ UNCHANGED <<msg, section, decision, log, out, config, topic, topology>>

\* the calls have returned and their locals are gone: the worker is free
\* for the next message
Release(w) ==
    /\ pc[w] = "done"
    /\ pc' = [pc EXCEPT ![w] = "idle"]
    /\ msg' = [msg EXCEPT ![w] = NoMessage]
    /\ section' = [section EXCEPT ![w] = "frigate/events"]
    /\ decision' = [decision EXCEPT ![w] = NoDecision]
    /\ log' = [log EXCEPT ![w] = <<>>]
    /\ out' = [out EXCEPT ![w] = NoParams]
    /\ UNCHANGED <<config, topic, topology>>

\* messages that do not parse, are no object, or whose `after` is no record
ReceiveMalformed(w) ==
    /\ pc[w] = "idle"
    /\ config["frigate/events"] \in FewRuleLists
    /\ \/ \E m \in {Garbage, NonObject} : Receive(w, "frigate/events", m)
       \/ \E t \in Types, b \in {BeforeMissing, SampleBefore}, a \in NonRecordAfters :
             Receive(w, "frigate/events", Object(t, b, a))

\* `after` records whose required fields are each missing, falsy or filled
ReceiveFields(w) ==
    /\ pc[w] = "idle"
    /\ config["frigate/events"] \in FewRuleLists
    /\ \E t \in Types, b \in {BeforeMissing, SampleBefore},
          fp  \in {Absent, PyTrue, PyFalse},
          cam \in {Absent, Str(""), Str("driveway")},
          lab \in {Absent, Str(""), Str("cat")},
          cz  \in {Absent} \cup ShortZoneLists,
          ez  \in {Absent} \cup ShortZoneLists,
          ft  \in {Absent, Num(0), FrameTime} :
             Receive(w, "frigate/events",
                     Object(t, b, AfterDict(AfterRecord(fp, cam, lab, Null, cz, ez, ft, Absent))))

\* `new` and `update` events with every pair of zone lists
ReceiveUpdate(w) ==
    /\ pc[w] = "idle"
    /\ Len(config["frigate/events"]) = 0
    /\ \E t \in {Str("new"), Str("update")}, cz \in ZoneLists, ez \in ZoneLists,
          st \in {Absent, PyTrue, PyFalse} :
          \/ \E b \in {BeforeMissing, BeforeNull} :
                Receive(w, "frigate/events",
                        Object(t, b, AfterDict(AfterRecord(PyFalse, Str("driveway"), Str("cat"),
                                                           Null, cz, ez, FrameTime, st))))
          \/ \E bst \in {Absent, PyTrue}, bcz \in BeforeZones(cz), bez \in BeforeZones(ez) :
                Receive(w, "frigate/events",
                        Object(t, BeforeDict(BeforeRecord(bst, bcz, bez)),
                               AfterDict(AfterRecord(PyFalse, Str("driveway"), Str("cat"),
                                                     Null, cz, ez, FrameTime, st))))

\* events that reach the skip rules, under every list of rules
ReceiveForRules(w) ==
    /\ pc[w] = "idle"
    /\ \E t \in {Str("new"), Str("update")},
          lab \in {Str("cat"), Str("person")},
          sub \in {Absent, Null, Str("bob")},
          ez  \in ZoneLists \ {List(<<>>)} :
             Receive(w, "frigate/events",
                     Object(t, SampleBefore,
                            AfterDict(AfterRecord(PyFalse, Str("driveway"), lab, sub,
                                                  List(<<>>), ez, FrameTime, Absent))))

Next ==
    \/ ReceiveMalformed(1)
    \/ ReceiveFields(1)
    \/ ReceiveUpdate(1)
    \/ ReceiveForRules(1)
    \/ Filter(1)
    \/ Compose(1)
    \/ Drop(1)

Spec == Init /\ [][Next]_vars

-----------------------------------------------------------------------------
(* Concurrent workers, each serving message after message.                 *)

ConcMessages ==
    {Garbage,
     Object(Str("end"), BeforeMissing, AfterMissing),
     Object(Str("new"), BeforeMissing,
            AfterDict(AfterRecord(PyFalse, Str("driveway"), Str("cat"), Null,
                                  List(<<>>), List(<<"front_yard">>), FrameTime, Absent))),
     Object(Str("new"), BeforeMissing,
            AfterDict(AfterRecord(PyFalse, Str("driveway"), Str("person"), Str("bob"),
                                  List(<<"side_yard">>), List(<<"front_yard", "side_yard">>),
                                  FrameTime, Absent))),
     Object(Str("update"), SampleBefore,
            AfterDict(AfterRecord(PyFalse, Str("driveway"), Str("person"), Null,
                                  List(<<"side_yard">>), List(<<"side_yard">>),
                                  FrameTime, PyTrue)))}

InitConc ==
    /\ pc = [w \in Workers |-> "idle"]
    /\ msg = [w \in Workers |-> NoMessage]
    /\ section = [w \in Workers |-> "frigate/events"]
    /\ decision = [w \in Workers |-> NoDecision]
    /\ log = [w \in Workers |-> <<>>]
    /\ out = [w \in Workers |-> NoParams]
    /\ config = ConfigOf(<< << <<"label", {"cat", "dog"}>> >> >>)
    /\ topic = NoTopic
    /\ topology = Pending

ReceiveConc(w) ==
    /\ pc[w] = "idle"
    /\ \E s \in Sections, m \in ConcMessages : Receive(w, s, m)

NextConc ==
    \E w \in Workers :
        \/ ReceiveConc(w)
        \/ Filter(w)
        \/ Compose(w)
        \/ Drop(w)
        \/ Release(w)

SpecConc == InitConc /\ [][NextConc]_vars

-----------------------------------------------------------------------------
(* The topic decoder on its own.                                           *)

InitTopic ==
    /\ pc = [w \in Workers |-> "idle"]
    /\ msg = [w \in Workers |-> NoMessage]
    /\ section = [w \in Workers |-> "frigate/events"]
    /\ decision = [w \in Workers |-> NoDecision]
    /\ log = [w \in Workers |-> <<>>]
    /\ out = [w \in Workers |-> NoParams]
    /\ config = ConfigOf(<<>>)
    /\ \/ topic = NoTopic
       \/ \E n \in 1..MaxSegments : \E x \in [1..n -> Segments] :
             topic = [str |-> TRUE, segs |-> x]
    /\ topology = Pending

\* the call of frigate_snapshot_decode_topic, lines 184-202
DecodeTopic ==
    /\ topology = Pending
    /\ topology' = frigate_snapshot_decode_topic(topic)
    /\ UNCHANGED <<pc, msg, section, decision, log, out, config, topic>>

NextTopic == DecodeTopic

SpecTopic == InitTopic /\ [][NextTopic]_vars

-----------------------------------------------------------------------------
(* Properties.  The predicates below restate the conditions of the         *)
(* pipeline over a message, independently of the operators above.          *)

Filtered(w) == pc[w] \in {"filtered", "done"}

Returned(w, r) == Filtered(w) /\ decision[w].ret = r

IsObject(m) == m.kind = "object"

TypeIs(m, x) == IsObject(m) /\ m.type = Str(x)

\* the `after` record passes the required-field checks of step 4
FieldsOk(m) ==
    /\ IsObject(m)
    /\ m.after.kind = "dict"
    /\ m.after.d.false_positive \notin {Absent, PyTrue}
    /\ m.after.d.current_zones # Absent
    /\ \A x \in {"camera", "label", "entered_zones", "frame_time"} :
          m.after.d[x] # Absent /\ Truthy(m.after.d[x])

\* step 5 applies: an update with a `before` record
IsUpdate(m) == TypeIs(m, "update") /\ m.before.kind = "dict"

BothStationary(m) ==
    m.before.d.stationary = PyTrue /\ m.after.d.stationary = PyTrue

ZoneSet(v) == {v.l[i] : i \in DOMAIN v.l}

\* current_zones and entered_zones hold the same zones, in any order
SameZonesAsSets(m) ==
    ZoneSet(m.after.d.current_zones) = ZoneSet(m.after.d.entered_zones)

\* current_zones and entered_zones are the same sequence
SameZonesInOrder(m) == m.after.d.current_zones = m.after.d.entered_zones

\* `before` has both zone lists, equal to those of `after`
ZonesUnchanged(m) ==
    /\ m.before.d.current_zones # Absent
    /\ m.before.d.entered_zones # Absent
    /\ m.before.d.current_zones = m.after.d.current_zones
    /\ m.before.d.entered_zones = m.after.d.entered_zones

\* the message gets through steps 1-5 and reaches the skip rules
ReachesRules(m) ==
    /\ FieldsOk(m)
    /\ ~TypeIs(m, "end")
    /\ IsUpdate(m) =>
         /\ ~BothStationary(m)
         /\ ~SameZonesInOrder(m)
         /\ m.before.d.current_zones # Absent
         /\ m.before.d.current_zones = m.after.d.current_zones =>
              /\ m.before.d.entered_zones # Absent
              /\ m.before.d.entered_zones # m.after.d.entered_zones

RuleFields(rule) == {rule[j][1] : j \in DOMAIN rule}

\* the rule names a field the `after` record lacks
Misconfigured(rule, m) == \E x \in RuleFields(rule) : ~Has(m.after.d, x)

\* every field the rule lists matches: membership for a scalar, subset
\* for a sequence
Triggers(rule, m) ==
    \A j \in DOMAIN rule :
        LET v == Lookup(m.after.d, rule[j][1]) IN
        IF v.t = "list" THEN ZoneSet(v) \subseteq rule[j][2]
        ELSE v.t = "str" /\ v.s \in rule[j][2]

RulesOf(w) == config[section[w]]

\* C1: a forwarded payload satisfies every validity condition of steps 2-4
C1_ForwardedIsValid ==
    \A w \in Workers :
        Returned(w, "forward") =>
            /\ ~TypeIs(msg[w], "end")
            /\ msg[w].after.kind = "dict"
            /\ msg[w].after.d.false_positive # PyTrue
            /\ msg[w].after.d.current_zones # Absent
            /\ \A x \in {"camera", "label", "entered_zones", "frame_time"} :
                  msg[w].after.d[x] # Absent /\ Truthy(msg[w].after.d[x])

\* a payload is forwarded although the section has skip rules and its
\* current_zones is empty
C1_Witness ==
    /\ Returned(1, "forward")
    /\ RulesOf(1) # <<>>
    /\ msg[1].after.d.current_zones = List(<<>>)

\* C2, as claimed: an update with a `before` record (whatever its zone
\* lists hold) whose current_zones and entered_zones are equal as sets is
\* suppressed
C2_SetEqualSuppressed ==
    \A w \in Workers :
        (/\ Filtered(w) /\ IsUpdate(msg[w]) /\ FieldsOk(msg[w])
         /\ msg[w].before.d.current_zones # Absent
         /\ msg[w].before.d.entered_zones # Absent
         /\ SameZonesAsSets(msg[w]))
            => decision[w].ret = "suppress"

\* C2, amended: an update with a `before` record whose current_zones and
\* entered_zones are the same sequence is suppressed, whatever `before`
\* and the stationary fields hold
C2_SameSequenceSuppressed ==
    \A w \in Workers :
        (Filtered(w) /\ IsUpdate(msg[w]) /\ FieldsOk(msg[w]) /\ SameZonesInOrder(msg[w]))
            => decision[w].ret = "suppress"

\* an update is suppressed for its equal zone lists alone: not
\* stationary, and `before` has no zone lists at all
C2_Witness ==
    /\ Returned(1, "suppress")
    /\ IsUpdate(msg[1]) /\ FieldsOk(msg[1]) /\ SameZonesInOrder(msg[1])
    /\ ~BothStationary(msg[1])
    /\ msg[1].before.d.current_zones = Absent
    /\ log[1] = <<Line("Frigate event skipped, object stayed within same zone", "")>>

\* C3: with well-formed rules, a payload that reaches the rules is
\* suppressed exactly when some rule triggers, and forwarded otherwise
C3_SuppressIffRuleTriggers ==
    \A w \in Workers :
        (/\ Filtered(w)
         /\ ReachesRules(msg[w])
         /\ \A i \in DOMAIN RulesOf(w) : ~Misconfigured(RulesOf(w)[i], msg[w]))
        => /\ decision[w].ret \in {"suppress", "forward"}
           /\ decision[w].ret = "suppress" <=>
                \E i \in DOMAIN RulesOf(w) : Triggers(RulesOf(w)[i], msg[w])

\* two zones entered, one of them in the rule's set: the zone rule does
\* not trigger (subset, not intersection) and the payload is forwarded
C3_Witness ==
    /\ Returned(1, "forward")
    /\ ReachesRules(msg[1])
    /\ RulesOf(1) = << << <<"label", {"cat", "dog"}>> >>, << <<"entered_zones", {"front_yard"}>> >> >>
    /\ msg[1].after.d.label = Str("person")
    /\ msg[1].after.d.entered_zones = List(<<"front_yard", "side_yard">>)

\* C4, as claimed: a payload that reaches the rules fails hard whenever
\* some rule is misconfigured, wherever that rule stands
C4_MisconfiguredAlwaysFails ==
    \A w \in Workers :
        (/\ Filtered(w)
         /\ ReachesRules(msg[w])
         /\ \E i \in DOMAIN RulesOf(w) : Misconfigured(RulesOf(w)[i], msg[w]))
        => decision[w].ret = "raise"

\* C4, amended: with a misconfigured rule the call fails hard (KeyError)
\* unless a rule listed before the first misconfigured one triggers, and
\* then it suppresses; it never forwards
C4_MisconfiguredFailsUnlessEarlierRule ==
    \A w \in Workers :
        (/\ Filtered(w)
         /\ ReachesRules(msg[w])
         /\ \E i \in DOMAIN RulesOf(w) : Misconfigured(RulesOf(w)[i], msg[w]))
        => LET bad   == {i \in DOMAIN RulesOf(w) : Misconfigured(RulesOf(w)[i], msg[w])}
               first == CHOOSE i \in bad : \A k \in bad : i <= k
           IN  IF \E i \in 1..(first - 1) : Triggers(RulesOf(w)[i], msg[w])
               THEN decision[w].ret = "suppress"
               ELSE decision[w].ret = "raise" /\ decision[w].exc = "KeyError"

\* the second rule is misconfigured, the first does not trigger: the
\* call raises
C4_Witness ==
    /\ Returned(1, "raise")
    /\ ReachesRules(msg[1])
    /\ Len(RulesOf(1)) = 2
    /\ ~Misconfigured(RulesOf(1)[1], msg[1])
    /\ ~Triggers(RulesOf(1)[1], msg[1])
    /\ Misconfigured(RulesOf(1)[2], msg[1])

\* C5: the Composer completes on every payload the Filter forwarded
C5_ComposerTotalOnForwarded ==
    \A w \in Workers :
        (pc[w] = "done" /\ decision[w].ret = "forward") => out[w].ret = "params"

\* the suppression conditions of steps 1-6, as the specification words them
SuppressionCondition(m, rules) ==
    \/ m.kind = "garbage"
    \/ TypeIs(m, "end")
    \/ IsObject(m) /\ m.after.kind = "absent"
    \/ ~FieldsOk(m)
    \/ IsUpdate(m) /\ (BothStationary(m) \/ SameZonesAsSets(m) \/ ZonesUnchanged(m))
    \/ \E i \in DOMAIN rules : Triggers(rules[i], m)

\* C6: a payload (a JSON object with an `after` record, under well-formed
\* rules) on which no suppression condition holds is forwarded
C6_ForwardedUnlessCondition ==
    \A w \in Workers :
        (/\ Filtered(w)
         /\ IsObject(msg[w]) /\ msg[w].after.kind = "dict"
         /\ \A i \in DOMAIN RulesOf(w) : ~Misconfigured(RulesOf(w)[i], msg[w])
         /\ ~SuppressionCondition(msg[w], RulesOf(w)))
        => decision[w].ret = "forward"

\* the required field x of `after` fails its check of step 4
FieldBad(m, x) ==
    IF m.after.kind = "list" THEN \A k \in DOMAIN m.after.items : m.after.items[k] # x
    ELSE \/ m.after.d[x] = Absent
         \/ x = "false_positive" /\ m.after.d[x] = PyTrue
         \/ x \notin {"false_positive", "current_zones"} /\ ~Truthy(m.after.d[x])

FieldReason(m, x) ==
    IF m.after.kind = "list" \/ m.after.d[x] = Absent
    THEN Line("Frigate event skipped, missing field: ", x)
    ELSE IF x = "false_positive"
    THEN Line("Frigate event skipped, it is a false positive", "")
    ELSE Line("Frigate event skipped, field is empty: ", x)

\* the warnings due for a message: the reason of the first condition of
\* the ordered pipeline that holds, none when no condition holds
ReasonsDue(m, rules) ==
    IF m.kind = "garbage"
    THEN <<Line("Can't parse Frigate event message: ", "JSONDecodeError")>>
    ELSE IF TypeIs(m, "end")
    THEN <<Line("Frigate event skipped, ignoring Message type ", "end")>>
    ELSE IF m.after.kind = "absent"
    THEN <<Line("Frigate event skipped, 'after' missing from payload", "")>>
    ELSE IF \E i \in DOMAIN nonempty_fields : FieldBad(m, nonempty_fields[i])
    THEN LET bad   == {i \in DOMAIN nonempty_fields : FieldBad(m, nonempty_fields[i])}
             first == CHOOSE i \in bad : \A k \in bad : i <= k
         IN  <<FieldReason(m, nonempty_fields[first])>>
    ELSE IF IsUpdate(m) /\ BothStationary(m)
    THEN <<Line("Frigate event skipped, object is stationary", "")>>
    ELSE IF IsUpdate(m) /\ (SameZonesInOrder(m) \/ ZonesUnchanged(m))
    THEN <<Line("Frigate event skipped, object stayed within same zone", "")>>
    ELSE IF \E i \in DOMAIN rules : Triggers(rules[i], m)
    THEN <<Line("Frigate event skipped, object did not enter zone of interest", "")>>
    ELSE <<>>

\* C7: a call that suppresses has logged exactly one warning, the reason of
\* the first condition of the pipeline that holds; a call that forwards
\* has logged nothing
C7_OneWarningPerSuppression ==
    \A w \in Workers :
        /\ Returned(w, "suppress") =>
              /\ Len(log[w]) = 1
              /\ log[w] = ReasonsDue(msg[w], RulesOf(w))
        /\ Returned(w, "forward") => log[w] = <<>>

\* an update of a stationary object with an empty camera, no label and a
\* zero frame_time, under a rule that always triggers: one warning, for
\* the camera
C7_Witness ==
    /\ Returned(1, "suppress")
    /\ TypeIs(msg[1], "update")
    /\ msg[1].after.kind = "dict"
    /\ msg[1].after.d.camera = Str("")
    /\ msg[1].after.d.label = Absent
    /\ msg[1].after.d.frame_time = Num(0)
    /\ RulesOf(1) = << <<>> >>
    /\ log[1] = <<Line("Frigate event skipped, field is empty: ", "camera")>>

\* the topic has the shape frigate/<camera_name>/<object_name>/snapshot
FourSegments(tp) ==
    /\ tp.str
    /\ Len(tp.segs) = 4
    /\ tp.segs[1] = "frigate"
    /\ tp.segs[4] = "snapshot"
    /\ tp.segs[2] \notin {"", "snapshot\n"}
    /\ tp.segs[3] \notin {"", "snapshot\n"}

\* C8: None for a topic that is no string; the second and third segments
\* for a topic of the four-segment shape; the empty mapping for every
\* other string
C8_DecodesExactlyFourSegments ==
    topology # Pending =>
        IF ~topic.str THEN topology = NoneResult
        ELSE IF FourSegments(topic)
        THEN topology = [ret |-> "groupdict",
                         camera_name |-> <<topic.segs[2]>>,
                         object_name |-> <<topic.segs[3]>>]
        ELSE topology = EmptyDict

\* the results of worker w, as processing its message in isolation gives them
InIsolation(w) ==
    LET r == frigate_events_filter(msg[w], config[section[w]]) IN
    /\ Filtered(w) =>
          /\ decision[w] = [r EXCEPT !.log = <<>>]
          /\ log[w] = r.log
    /\ pc[w] = "done" =>
          out[w] = IF r.ret = "forward" THEN frigate_events(msg[w], FilenameTemplate)
                   ELSE NoParams

C10_FilterTotal ==
    \A w \in Workers :
        (/\ Filtered(w)
         /\ \A i \in DOMAIN RulesOf(w) : ~Misconfigured(RulesOf(w)[i], msg[w]))
        => decision[w].ret \in {"suppress", "forward"}

=============================================================================
